---- MODULE Spec2Model ----
(***************************************************************************)
(* Model of main.py: the refresh of the three categories (weather, namaz,  *)
(* currency_rates) against the JSON Store file, the cache fallback, the    *)
(* currency history tracker and the three run modes of main().             *)
(*                                                                         *)
(* A call of get_weather / get_namaz / get_rates / process_currency_history*)
(* is one step: within one invocation of the script the code is            *)
(* sequential and blocking.  Upstream answers, Store read/write failures   *)
(* and the wall clock are inputs chosen by the environment.                *)
(***************************************************************************)
EXTENDS Integers, Sequences, FiniteSets, TLC

VARIABLES
    store,              \* content of DATA_FILE (the Store document)
    clock,              \* wall clock: [day, tick]
    pc,                 \* position of the running invocation in main()
    MODE,               \* args.mode
    USE_LIVE,           \* args.use_live
    MONITOR_CURRENCY,   \* args.currency override
    current_hour,       \* datetime.now().hour read at the top of main()
    weather,            \* main()'s local: weather payload
    namaz,              \* main()'s local: namaz payload
    rates,              \* main()'s local: rates payload
    sent,               \* kinds of message handed to tg_msg in this run
    fetched,            \* categories for which an upstream request was made in this run
    failed,             \* categories whose upstream request raised in this run
    outcome,            \* how the run ended
    at_start,           \* the Store document when the run started (ghost)
    last,               \* record of the last function call (ghost)
    invocation,         \* two invocations running side by side: the position and
                        \* the locals of each
    overwrites          \* writes of a document that was not the file's content (ghost)

vars == <<store, clock, pc, MODE, USE_LIVE, MONITOR_CURRENCY, current_hour,
          weather, namaz, rates, sent, fetched, failed, outcome, at_start, last,
          invocation, overwrites>>

----------------------------------------------------------------------------
(* Bounds of the model *)

MaxDay == 1         \* calendar days 0..MaxDay
MaxTick == 1        \* clock readings 0..MaxTick within a day
MaxRecipients == 2  \* entries of the recipients list 1..MaxRecipients

----------------------------------------------------------------------------
(* Program constants *)

CURRENCIES == {"USD", "EUR"}
HISTORY_KEEP == 24
RUN_HOUR_FROM == 5
RUN_HOUR_TO == 15

----------------------------------------------------------------------------
(* Timestamps.  strftime of the clock gives a "time" stamp; a payload may  *)
(* have no timestamp key ("absent"); the default text of the fallback      *)
(* branch is the "marker".                                                 *)

NoStamp == [kind |-> "absent", day |-> 0, tick |-> 0]

\* "Из файла (нет даты)": the default of data.get("last_upd_...", ...)
STALE_MARKER == [kind |-> "marker", day |-> 0, tick |-> 0]

\* datetime.now(PARIS).strftime("%d.%m.%Y %H:%M:%S")
Strftime(now) == [kind |-> "time", day |-> now.day, tick |-> now.tick]

Clocks == [day : 0..MaxDay, tick : 0..MaxTick]

\* chronological order of two clock readings
NotAfter(a, b) == a.day < b.day \/ (a.day = b.day /\ a.tick <= b.tick)

----------------------------------------------------------------------------
(* Payloads.  A dict is a record of fixed shape; a key that is not in the  *)
(* dict holds the "absent" value of its field.  None and {} are both the   *)
(* payload with no key at all, which is what Python's truth test sees.     *)

\* weather: body names the fetched conditions and forecast
\*   "w1" complete forecast, "wp" a forecast with a day missing
NoWeather == [body |-> "none", ts |-> NoStamp]
WeatherBodies == {"w1", "wp"}

\* namaz: "n1" the prayer times, "blank" all six names mapped to ""
NoNamaz == [body |-> "none", ts |-> NoStamp]
NamazBodies == {"n1", "blank"}

\* currency_rates: per currency {buy, sale} as received, or no key
NoRate == [buy |-> "-", sale |-> "-"]
NoRates == [USD |-> NoRate, EUR |-> NoRate, ts |-> NoStamp]

\* the literal returned by get_rates(use_live=False) on an empty cache
DEFAULT_RATES ==
    [USD |-> [buy |-> "470.5", sale |-> "475.0"],
     EUR |-> [buy |-> "490.0", sale |-> "495.0"],
     ts |-> NoStamp]

\* bool(payload) of a weather or namaz payload
Truthy(p) == p # NoWeather

\* bool(payload) of a rates payload
TruthyRates(r) == r # NoRates

\* variant: a text that is no number is taken as 0 and nothing is raised
FloatOk_Lenient(s) == TRUE

\* float(s) for the rate texts of the model, in tenths; "x" does not parse
FloatOk(s) == s \in {"1", "2", "5", "470.5", "475.0", "490.0", "495.0"}
Float(s) ==
    CASE s = "1" -> 10
      [] s = "2" -> 20
      [] s = "5" -> 50
      [] s = "470.5" -> 4705
      [] s = "475.0" -> 4750
      [] s = "490.0" -> 4900
      [] s = "495.0" -> 4950
      [] OTHER -> 0

----------------------------------------------------------------------------
(* The Store document *)

NoHistory == [USD |-> <<>>, EUR |-> <<>>]

\* {} : what load_data returns for a missing or unreadable file
EmptyDoc ==
    [weather |-> NoWeather, namaz |-> NoNamaz, currency_rates |-> NoRates,
     currency_history |-> NoHistory, last_history_update |-> <<>>]

\* variant: the error is logged and not sent
send_error_logged_only == {}

\* send_error_to_telegram(error_msg): log.error, then tg_msg(...); the kinds
\* of message handed to tg_msg
send_error_to_telegram == {"error"}

\* load_data(): the file's document, or {} with an error message when the
\* read raises
load_data(file, ok) ==
    [doc |-> IF ok THEN file ELSE EmptyDoc,
     msgs |-> IF ok THEN {} ELSE send_error_to_telegram]

\* save_data(data): whole-document replace; a failure is reported and the
\* file keeps its content
save_data(file, data, ok) ==
    [file |-> IF ok THEN data ELSE file,
     msgs |-> IF ok THEN {} ELSE send_error_to_telegram]

----------------------------------------------------------------------------
(* Upstream answers (inputs) *)

\* a request that raises (network error, timeout, malformed answer)
FetchFailed == [ok |-> FALSE, body |-> "none"]

WeatherAnswers == {FetchFailed} \cup [ok : {TRUE}, body : WeatherBodies]
NamazAnswers == {FetchFailed} \cup [ok : {TRUE}, body : NamazBodies]

\* the Kaspi answer reduced to the configured currencies (the dict
\* comprehension of get_rates); res is NoRates without its stamp when the
\* body names no configured currency
RateOf(b, s) == [buy |-> b, sale |-> s]
EUR_RATE == RateOf("5", "5")
KaspiBodies ==
    { [USD |-> RateOf("1", "5"), EUR |-> EUR_RATE, ts |-> NoStamp],
      [USD |-> RateOf("2", "5"), EUR |-> EUR_RATE, ts |-> NoStamp],
      [USD |-> NoRate, EUR |-> EUR_RATE, ts |-> NoStamp],
      [USD |-> RateOf("x", "5"), EUR |-> EUR_RATE, ts |-> NoStamp],
      NoRates }
RatesAnswers == {[ok |-> FALSE, body |-> NoRates]} \cup [ok : {TRUE}, body : KaspiBodies]

----------------------------------------------------------------------------
(* Refresh of one category *)

\* variant: data["last_upd_..."] put back without a default
FallbackStamp_NoDefault(ts) == ts

\* data.get("last_upd_...", "Из файла (нет даты)")
FallbackStamp(ts) == IF ts = NoStamp THEN STALE_MARKER ELSE ts

\* variant: the assignment store[key] = payload is missing
Merge_Skipped(doc, key, payload) == doc

\* store[key] = payload
Merge(doc, key, payload) == [doc EXCEPT ![key] = payload]

\* the result of one call: the returned value, the file afterwards, the
\* messages handed to tg_msg, whether an upstream request was made, whether
\* load_data and save_data were called, and whether the except branch ran
Result(ret, file, msgs, requested, read, wrote) ==
    [ret |-> ret, file |-> file, msgs |-> msgs, requested |-> requested,
     read |-> read, wrote |-> wrote, raised |-> FALSE, escaped |-> FALSE]

\* variant: the function has no try/except, the exception leaves it
Raised_Unhandled(r) == [r EXCEPT !.raised = TRUE, !.escaped = TRUE]

\* the function's own "except Exception" branch ran: the exception is
\* reported and the function returns its empty value
Raised(r) == [r EXCEPT !.raised = TRUE]

\* variant: the fallback saves the payload it re-stamped
CacheBranch_Saving(file, key, loadOk) ==
    LET l == load_data(file, loadOk)
        data == l.doc[key]
        again == [data EXCEPT !.ts = IF data.ts = NoStamp THEN STALE_MARKER ELSE data.ts]
    IN  IF data # NoWeather
        THEN [ret |-> again, file |-> [l.doc EXCEPT ![key] = again], msgs |-> l.msgs,
              requested |-> FALSE, read |-> TRUE, wrote |-> TRUE, raised |-> FALSE,
              escaped |-> FALSE]
        ELSE [ret |-> NoWeather, file |-> file, msgs |-> l.msgs,
              requested |-> FALSE, read |-> TRUE, wrote |-> FALSE, raised |-> FALSE,
              escaped |-> FALSE]

\* the "if not use_live" branch of get_weather and get_namaz
CacheBranch(file, key, loadOk) ==
    LET l == load_data(file, loadOk)
        data == l.doc[key]
    IN  IF Truthy(data)
        THEN Result([data EXCEPT !.ts = FallbackStamp(data.ts)], file, l.msgs,
                    FALSE, TRUE, FALSE)
        ELSE Result(NoWeather, file, l.msgs, FALSE, TRUE, FALSE)

\* variant: a failed save_data raises into the getter's except branch
WriteBack_FailsOnSave(file, key, new, loadOk, saveOk) ==
    LET l == load_data(file, loadOk)
        s == save_data(file, Merge(l.doc, key, new), saveOk)
    IN  IF saveOk
        THEN Result(new, s.file, l.msgs \cup s.msgs, TRUE, TRUE, TRUE)
        ELSE Raised(Result(IF key = "currency_rates" THEN NoRates ELSE NoWeather,
                           file, l.msgs \cup s.msgs, TRUE, TRUE, TRUE))

\* store = load_data(); store[key] = new; save_data(store); return new
WriteBack(file, key, new, loadOk, saveOk) ==
    LET l == load_data(file, loadOk)
        s == save_data(file, Merge(l.doc, key, new), saveOk)
    IN  Result(new, s.file, l.msgs \cup s.msgs, TRUE, TRUE, TRUE)

get_weather(file, use_live, ans, loadOk, saveOk, now) ==
    IF ~use_live THEN CacheBranch(file, "weather", loadOk)
    ELSE IF ~ans.ok
         THEN Raised(Result(NoWeather, file, send_error_to_telegram, TRUE, FALSE, FALSE))
         ELSE WriteBack(file, "weather",
                        [body |-> ans.body, ts |-> Strftime(now)], loadOk, saveOk)

get_namaz(file, use_live, ans, loadOk, saveOk, now) ==
    IF ~use_live THEN CacheBranch(file, "namaz", loadOk)
    ELSE IF ~ans.ok
         THEN Raised(Result(NoNamaz, file, send_error_to_telegram, TRUE, FALSE, FALSE))
         ELSE WriteBack(file, "namaz",
                        [body |-> ans.body, ts |-> Strftime(now)], loadOk, saveOk)

get_rates(file, use_live, ans, loadOk, saveOk, now) ==
    IF ~use_live
    THEN LET l == load_data(file, loadOk)
             data == l.doc.currency_rates
         IN  IF TruthyRates(data)
             THEN Result([data EXCEPT !.ts = FallbackStamp(data.ts)], file, l.msgs,
                         FALSE, TRUE, FALSE)
             ELSE Result(DEFAULT_RATES, file, l.msgs, FALSE, TRUE, FALSE)
    ELSE IF ~ans.ok
         THEN Raised(Result(NoRates, file, {}, TRUE, FALSE, FALSE))
         ELSE WriteBack(file, "currency_rates",
                        [ans.body EXCEPT !.ts = Strftime(now)], loadOk, saveOk)

----------------------------------------------------------------------------
(* tg_msg: delivery of one message to the recipients list.  The outcome of *)
(* each bot.send_message call is an input: "ok", "tgerr" (TelegramError)   *)
(* or "err" (any other exception).  sends[i][a] is the outcome the a-th    *)
(* attempt for the i-th entry of recipients would have.                    *)

SendOutcomes == {"ok", "tgerr", "err"}

\* the a-th pass of "for attempt in range(max_attempts)" leaves the loop:
\* break after a success, break after an unexpected exception
Breaks(o) == o \in {"ok", "err"}

\* variant: no break after a success
AttemptsFor_NoBreak(s, max) == max

\* number of bot.send_message calls made for one recipient
AttemptsFor(s, max) ==
    IF \E a \in 1..max : Breaks(s[a])
    THEN CHOOSE a \in 1..max : Breaks(s[a]) /\ \A b \in 1..(a - 1) : ~Breaks(s[b])
    ELSE max

\* number of bot.send_message calls for one recipient that returned normally
DeliveredTo(s, max) == Cardinality({a \in 1..AttemptsFor(s, max) : s[a] = "ok"})

\* variant: giving up on a recipient ends the loop over the recipients
Reached_UntilGivenUp(recipients, sends, max) ==
    {i \in 1..Len(recipients) :
        \A j \in 1..(i - 1) : DeliveredTo(sends[j], max) > 0}

\* the entries of recipients that "for user_id in recipients" gets to: both
\* kinds of exception are caught inside the loop body
Reached(recipients, sends, max) == 1..Len(recipients)

\* variant: without the try/except blocks and the "if not bot" test
tg_msg_Unguarded(bot, recipients, sends) ==
    LET reached == Reached(recipients, sends, 3)
        fails == ~bot \/ \E i \in reached : DeliveredTo(sends[i], 3) = 0
    IN  [count |-> 0,
         attempts |-> [i \in 1..Len(recipients) |-> 0],
         delivered |-> [i \in 1..Len(recipients) |-> 0],
         escaped |-> fails]

\* tg_msg(txt, parse_mode): the returned success_count, and per entry of
\* recipients the number of send attempts and of deliveries
tg_msg(bot, recipients, sends) ==
    LET max_attempts == 3
        reached == Reached(recipients, sends, max_attempts)
        made(i) == IF i \in reached THEN AttemptsFor(sends[i], max_attempts) ELSE 0
        got(i) == IF i \in reached THEN DeliveredTo(sends[i], max_attempts) ELSE 0
    IN  IF ~bot \/ recipients = <<>>
        THEN [count |-> 0,
              attempts |-> [i \in 1..Len(recipients) |-> 0],
              delivered |-> [i \in 1..Len(recipients) |-> 0],
              escaped |-> FALSE]
        ELSE [count |-> Cardinality({i \in reached : got(i) > 0}),
              attempts |-> [i \in 1..Len(recipients) |-> made(i)],
              delivered |-> [i \in 1..Len(recipients) |-> got(i)],
              escaped |-> FALSE]

----------------------------------------------------------------------------
(* Currency history tracker *)

\* variant: history[:n]
LastN_Head(history, n) ==
    IF Len(history) <= n THEN history ELSE SubSeq(history, 1, n)

\* history[-n:]
LastN(history, n) ==
    IF Len(history) <= n THEN history
    ELSE SubSeq(history, Len(history) - n + 1, Len(history))

\* variant: the date is renewed and the history kept
Rollover_KeepsHistory(data, now) ==
    [data EXCEPT !.last_history_update = <<now.day>>]

\* if "last_history_update" not in data or data[...] != current_date:
\*     data["currency_history"] = {MONITOR_CURRENCY: []}
Rollover(data, now) ==
    IF data.last_history_update # <<now.day>>
    THEN [data EXCEPT !.currency_history = NoHistory,
                      !.last_history_update = <<now.day>>]
    ELSE data

\* variant: the comparison with the last entry is missing
SameAsLast_Never(history, buy, sale) == FALSE

\* if history: last_entry = history[-1];
\*     if last_entry.get("buy") == current_buy and last_entry.get("sale") == current_sale
SameAsLast(history, buy, sale) ==
    /\ history # <<>>
    /\ history[Len(history)].buy = buy
    /\ history[Len(history)].sale = sale

\* variant: the table is sent without the "if history" test
ChangeCalls_Always(history) == 1

\* "if history:" around the change table: the number of tg_msg calls that
\* hand over a change notification
ChangeCalls(history) == IF history # <<>> THEN 1 ELSE 0

\* the inputs of a tg_msg call: the bot handle, the recipients list and the
\* outcomes of the sends
NoDelivery == [bot |-> TRUE, recipients |-> <<>>, sends |-> <<>>]

\* what a record call that did not reach tg_msg reports about it
NotNotified ==
    [calls |-> 0, count |-> 0, attempts |-> <<>>, delivered |-> <<>>, escaped |-> FALSE]

\* one call of process_currency_history; monitor is MONITOR_CURRENCY, d the
\* inputs of its tg_msg call.  step names the exit taken:
\*   "absent"  monitored currency not in rates
\*   "raised"  an exception was raised, the except branch ran
\*   "same"    unchanged rates, nothing recorded
\*   "saved"   sample appended and save_data called
\* notify reports the tg_msg call of the change notification.
process_currency_history(file, rs, monitor, loadOk, saveOk, now, d) ==
    IF ~TruthyRates(rs) \/ rs[monitor] = NoRate
    THEN Result(NoHistory, file, {}, FALSE, FALSE, FALSE)
             @@ [step |-> "absent", notify |-> NotNotified]
    ELSE
    LET l == load_data(file, loadOk)
        data == Rollover(l.doc, now)
        history == data.currency_history[monitor]
        parsed == FloatOk(rs[monitor].buy) /\ FloatOk(rs[monitor].sale)
        current_buy == Float(rs[monitor].buy)
        current_sale == Float(rs[monitor].sale)
        new_entry == [t |-> [day |-> now.day, tick |-> now.tick],
                      buy |-> current_buy, sale |-> current_sale]
        calls == ChangeCalls(history)
        notice == IF calls > 0 THEN {"change"} ELSE {}
        tg == IF calls > 0
              THEN tg_msg(d.bot, d.recipients, d.sends) @@ [calls |-> calls]
              ELSE NotNotified
        kept == LastN(Append(history, new_entry), HISTORY_KEEP)
        data2 == [data EXCEPT !.currency_history[monitor] = kept]
        s == save_data(file, data2, saveOk)
    IN  IF ~parsed
        THEN Raised(Result(NoHistory, file, l.msgs \cup send_error_to_telegram,
                           FALSE, TRUE, FALSE))
                 @@ [step |-> "raised", notify |-> NotNotified]
        ELSE IF SameAsLast(history, current_buy, current_sale)
        THEN Result(data.currency_history, file, l.msgs, FALSE, TRUE, FALSE)
                 @@ [step |-> "same", notify |-> NotNotified]
        ELSE IF tg.escaped
        THEN Raised(Result(NoHistory, file,
                           l.msgs \cup notice \cup send_error_to_telegram,
                           FALSE, TRUE, FALSE))
                 @@ [step |-> "raised", notify |-> tg]
        ELSE Result(data2.currency_history, s.file, l.msgs \cup notice \cup s.msgs,
                    FALSE, TRUE, TRUE)
                 @@ [step |-> "saved", notify |-> tg]

----------------------------------------------------------------------------
(* main() *)

\* variant: the last hour of the window is excluded
should_run_HalfOpen(hour, update_only) ==
    IF ~update_only THEN TRUE
    ELSE RUN_HOUR_FROM <= hour /\ hour < RUN_HOUR_TO

\* should_run(hour, update_only)
should_run(hour, update_only) ==
    IF ~update_only THEN TRUE
    ELSE RUN_HOUR_FROM <= hour /\ hour <= RUN_HOUR_TO

\* variant: any([weather, namaz, rates])
AllPresent_Any(w, n, r) == w # NoWeather \/ n # NoNamaz \/ r # NoRates

\* all([weather, namaz, rates])
AllPresent(w, n, r) == Truthy(w) /\ Truthy(n) /\ TruthyRates(r)

\* send_text_report builds its tables without a KeyError
ReportFormable(w, r) ==
    w.body = "w1" /\ \A c \in CURRENCIES : r[c] # NoRate

\* send_text_report(weather, curr, hist, namaz): the kinds of message it
\* hands to tg_msg
send_text_report(w, r) ==
    IF ReportFormable(w, r) THEN {"report"} ELSE send_error_to_telegram

Hours == {4, 5, 15, 16}
Modes == {"FULL_REPORT", "UPD_NAMAZ", "UPD_CURRENCY"}

\* the ghost record of a call: its arguments and inputs, the Store before
\* it, and what it returned and did
Call(fn, live, ans, loadOk, saveOk, now, r) ==
    [fn |-> fn, live |-> live, ans |-> ans, loadOk |-> loadOk,
     saveOk |-> saveOk, now |-> now, pre |-> store,
     r |-> [r EXCEPT !.file = EmptyDoc]]

\* an outcome of load_data or save_data is an input only of a call that
\* reaches it
Drawn(r, loadOk, saveOk) == (r.read \/ loadOk) /\ (r.wrote \/ saveOk)

NoCall == [fn |-> "none"]

\* USER_IDS: the configured recipients, at least one
Recipients(n) == [i \in 1..n |-> i]

\* the first send to every recipient is delivered
Delivered ==
    [bot |-> TRUE, recipients |-> Recipients(MaxRecipients),
     sends |-> [i \in 1..MaxRecipients |-> [a \in 1..3 |-> "ok"]]]

\* the deliveries drawn for the change notification of a record call: no
\* bot, or every send of every recipient with the same outcome
RecordDeliveries ==
    {[bot |-> TRUE, recipients |-> Recipients(MaxRecipients),
      sends |-> [i \in 1..MaxRecipients |-> [a \in 1..3 |-> o]]] : o \in SendOutcomes}
    \cup {[bot |-> FALSE, recipients |-> Recipients(MaxRecipients),
           sends |-> [i \in 1..MaxRecipients |-> [a \in 1..3 |-> "ok"]]]}

\* the outcome of a delivery is an input only of a call that reaches tg_msg
\* (whether it does is decided before the delivery)
DeliveriesOf(r) ==
    IF r.notify.calls > 0 THEN RecordDeliveries ELSE {NoDelivery}

----------------------------------------------------------------------------
(* One behaviour is one invocation of the script (a batch job started by   *)
(* cron).  Initially it has not started; the Store file is missing, or was *)
(* written by earlier runs, or is a document whose payloads carry no       *)
(* timestamp key (the case the fallback's default text exists for).        *)

Day0 == [day |-> 0, tick |-> 0]

StampedDoc ==
    [weather |-> [body |-> "w1", ts |-> Strftime(Day0)],
     namaz |-> [body |-> "n1", ts |-> Strftime(Day0)],
     currency_rates |-> [USD |-> RateOf("1", "5"), EUR |-> EUR_RATE, ts |-> Strftime(Day0)],
     currency_history |-> NoHistory, last_history_update |-> <<>>]

UnstampedDoc ==
    [weather |-> [body |-> "w1", ts |-> NoStamp],
     namaz |-> [body |-> "n1", ts |-> NoStamp],
     currency_rates |-> [USD |-> RateOf("1", "5"), EUR |-> EUR_RATE, ts |-> NoStamp],
     currency_history |-> NoHistory, last_history_update |-> <<>>]

\* StampedDoc after an UPD_CURRENCY run on day 0
HistoryDoc ==
    [StampedDoc EXCEPT
        !.currency_history = [USD |-> <<[t |-> Day0, buy |-> Float("1"), sale |-> Float("5")]>>,
                              EUR |-> <<>>],
        !.last_history_update = <<0>>]

\* the two invocations that run side by side
Procs == {1, 2}

\* an invocation before its first call: data is the document its last
\* load_data returned, read whether that load succeeded, result and res the
\* payloads it fetched, put what it has written under each key (ghost)
NotStarted ==
    [pc |-> "start", data |-> EmptyDoc, read |-> TRUE, result |-> NoNamaz, res |-> NoRates,
     put |-> [namaz |-> <<>>, currency_rates |-> <<>>, currency_history |-> <<>>]]

InitialStores == {EmptyDoc, StampedDoc, UnstampedDoc, HistoryDoc}

Idle ==
    /\ pc = "idle"
    /\ MODE = "FULL_REPORT"
    /\ USE_LIVE = TRUE
    /\ MONITOR_CURRENCY = "USD"
    /\ current_hour = 5
    /\ weather = NoWeather
    /\ namaz = NoNamaz
    /\ rates = NoRates
    /\ sent = {}
    /\ fetched = {}
    /\ failed = {}
    /\ outcome = "none"
    /\ at_start = EmptyDoc
    /\ last = NoCall
    /\ invocation = [p \in Procs |-> NotStarted]
    /\ overwrites = {}

Init ==
    /\ store \in InitialStores
    /\ clock = Day0
    /\ Idle

\* time passes before the script is started
Tick ==
    /\ pc = "idle"
    /\ last = NoCall
    /\ clock.tick < MaxTick
    /\ clock' = [clock EXCEPT !.tick = @ + 1]
    /\ UNCHANGED <<store, pc, MODE, USE_LIVE, MONITOR_CURRENCY, current_hour,
                   weather, namaz, rates, sent, fetched, failed, outcome, at_start, last,
                   invocation, overwrites>>

\* midnight
NextDay ==
    /\ pc = "idle"
    /\ last = NoCall
    /\ clock.day < MaxDay
    /\ clock' = [day |-> clock.day + 1, tick |-> 0]
    /\ UNCHANGED <<store, pc, MODE, USE_LIVE, MONITOR_CURRENCY, current_hour,
                   weather, namaz, rates, sent, fetched, failed, outcome, at_start, last,
                   invocation, overwrites>>

\* the script is started: argument parsing, then the top of main()
Start ==
    /\ pc = "idle"
    /\ MODE' \in Modes
    /\ USE_LIVE' \in BOOLEAN
    /\ MONITOR_CURRENCY' \in CURRENCIES
    /\ current_hour' \in Hours
    /\ weather' = NoWeather
    /\ namaz' = NoNamaz
    /\ rates' = NoRates
    /\ sent' = {}
    /\ fetched' = {}
    /\ failed' = {}
    /\ outcome' = "running"
    /\ at_start' = store
    /\ pc' = CASE MODE' = "FULL_REPORT" -> "full_weather"
               [] MODE' = "UPD_NAMAZ" -> "upd_namaz"
               [] OTHER -> "upd_currency"
    /\ last' = NoCall
    /\ UNCHANGED <<store, clock, invocation, overwrites>>

\* the effects every call has on the run: the file, the messages, the
\* upstream requests
Effects(cat, r) ==
    /\ store' = r.file
    /\ sent' = sent \cup r.msgs \cup (IF r.escaped THEN send_error_to_telegram ELSE {})
    /\ fetched' = IF r.requested THEN fetched \cup {cat} ELSE fetched
    /\ failed' = IF r.raised THEN failed \cup {cat} ELSE failed

\* name = f(...): the assignment is not made when the call lets an
\* exception out
Assigned(old, r) == IF r.escaped THEN old ELSE r.ret

\* the call just made let an exception out: main()'s "except Exception"
\* branch reports it and main() returns
Caught == last' # NoCall /\ last'.r.escaped

\* where main() goes on after the call
Goto(p) == IF Caught THEN "exit" ELSE p
Ends(o) == IF Caught THEN "caught" ELSE o

Config == <<MODE, USE_LIVE, MONITOR_CURRENCY, current_hour, clock, at_start,
            invocation, overwrites>>

\* weather = get_weather(use_live=True)
FullWeather ==
    /\ pc = "full_weather"
    /\ \E ans \in WeatherAnswers, loadOk \in BOOLEAN, saveOk \in BOOLEAN :
         LET r == get_weather(store, TRUE, ans, loadOk, saveOk, clock)
         IN  /\ Drawn(r, loadOk, saveOk)
             /\ Effects("weather", r)
             /\ weather' = Assigned(weather, r)
             /\ last' = Call("get_weather", TRUE, ans, loadOk, saveOk, clock, r)
    /\ pc' = Goto("full_namaz")
    /\ outcome' = Ends(outcome)
    /\ UNCHANGED <<Config, namaz, rates>>

\* namaz = get_namaz(use_live=True)
FullNamaz ==
    /\ pc = "full_namaz"
    /\ \E ans \in NamazAnswers, loadOk \in BOOLEAN, saveOk \in BOOLEAN :
         LET r == get_namaz(store, TRUE, ans, loadOk, saveOk, clock)
         IN  /\ Drawn(r, loadOk, saveOk)
             /\ Effects("namaz", r)
             /\ namaz' = Assigned(namaz, r)
             /\ last' = Call("get_namaz", TRUE, ans, loadOk, saveOk, clock, r)
    /\ pc' = Goto("full_rates")
    /\ outcome' = Ends(outcome)
    /\ UNCHANGED <<Config, weather, rates>>

\* rates = get_rates(use_live=True); if not all([weather, namaz, rates])
FullRates ==
    /\ pc = "full_rates"
    /\ \E ans \in RatesAnswers, loadOk \in BOOLEAN, saveOk \in BOOLEAN :
         LET r == get_rates(store, TRUE, ans, loadOk, saveOk, clock)
         IN  /\ Drawn(r, loadOk, saveOk)
             /\ Effects("currency_rates", r)
             /\ rates' = Assigned(rates, r)
             /\ last' = Call("get_rates", TRUE, ans, loadOk, saveOk, clock, r)
    /\ pc' = Goto(IF AllPresent(weather, namaz, rates') THEN "report" ELSE "fb_weather")
    /\ outcome' = Ends(outcome)
    /\ UNCHANGED <<Config, weather, namaz>>

\* weather = weather or get_weather(use_live=False)
FallbackWeather ==
    /\ pc = "fb_weather"
    /\ IF Truthy(weather)
       THEN UNCHANGED <<store, sent, fetched, failed, weather, last>>
       ELSE \E loadOk \in BOOLEAN :
              LET r == get_weather(store, FALSE, FetchFailed, loadOk, TRUE, clock)
              IN  /\ Drawn(r, loadOk, TRUE)
             /\ Effects("weather", r)
                  /\ weather' = Assigned(weather, r)
                  /\ last' = Call("get_weather", FALSE, FetchFailed, loadOk, TRUE, clock, r)
    /\ pc' = Goto("fb_namaz")
    /\ outcome' = Ends(outcome)
    /\ UNCHANGED <<Config, namaz, rates>>

\* namaz = namaz or get_namaz(use_live=False)
FallbackNamaz ==
    /\ pc = "fb_namaz"
    /\ IF Truthy(namaz)
       THEN UNCHANGED <<store, sent, fetched, failed, namaz, last>>
       ELSE \E loadOk \in BOOLEAN :
              LET r == get_namaz(store, FALSE, FetchFailed, loadOk, TRUE, clock)
              IN  /\ Drawn(r, loadOk, TRUE)
             /\ Effects("namaz", r)
                  /\ namaz' = Assigned(namaz, r)
                  /\ last' = Call("get_namaz", FALSE, FetchFailed, loadOk, TRUE, clock, r)
    /\ pc' = Goto("fb_rates")
    /\ outcome' = Ends(outcome)
    /\ UNCHANGED <<Config, weather, rates>>

\* rates = rates or get_rates(use_live=False);
\* if not all([weather, namaz, rates]): return
FallbackRates ==
    /\ pc = "fb_rates"
    /\ IF TruthyRates(rates)
       THEN UNCHANGED <<store, sent, fetched, failed, rates, last>>
       ELSE \E loadOk \in BOOLEAN :
              LET r == get_rates(store, FALSE, FetchFailed, loadOk, TRUE, clock)
              IN  /\ Drawn(r, loadOk, TRUE)
             /\ Effects("currency_rates", r)
                  /\ rates' = Assigned(rates, r)
                  /\ last' = Call("get_rates", FALSE, FetchFailed, loadOk, TRUE, clock, r)
    /\ IF AllPresent(weather, namaz, rates')
       THEN pc' = Goto("report") /\ outcome' = Ends(outcome)
       ELSE pc' = "exit" /\ outcome' = Ends("aborted")
    /\ UNCHANGED <<Config, weather, namaz>>

\* data = load_data(); history = ...; send_text_report(...)
Report ==
    /\ pc = "report"
    /\ \E loadOk \in BOOLEAN :
         sent' = sent \cup load_data(store, loadOk).msgs \cup send_text_report(weather, rates)
    /\ pc' = "exit"
    /\ outcome' = "reported"
    /\ UNCHANGED <<Config, store, weather, namaz, rates, fetched, failed, last>>

\* MODE == "UPD_NAMAZ"
UpdNamaz ==
    /\ pc = "upd_namaz"
    /\ \E ans \in NamazAnswers, loadOk \in BOOLEAN, saveOk \in BOOLEAN :
         LET r == get_namaz(store, TRUE, ans, loadOk, saveOk, clock)
         IN  /\ Drawn(r, loadOk, saveOk)
             /\ Effects("namaz", r)
             /\ namaz' = Assigned(namaz, r)
             /\ last' = Call("get_namaz", TRUE, ans, loadOk, saveOk, clock, r)
    /\ pc' = "exit"
    /\ outcome' = Ends("done")
    /\ UNCHANGED <<Config, weather, rates>>

\* MODE == "UPD_CURRENCY": the hour gate, then get_rates(force_update=True,
\* use_live=True)
UpdCurrency ==
    /\ pc = "upd_currency"
    /\ IF ~should_run(current_hour, TRUE)
       THEN /\ pc' = "exit"
            /\ outcome' = "gated"
            /\ UNCHANGED <<store, sent, fetched, failed, rates, last>>
       ELSE \E ans \in RatesAnswers, loadOk \in BOOLEAN, saveOk \in BOOLEAN :
              LET r == get_rates(store, TRUE, ans, loadOk, saveOk, clock)
              IN  /\ Drawn(r, loadOk, saveOk)
             /\ Effects("currency_rates", r)
                  /\ rates' = Assigned(rates, r)
                  /\ last' = Call("get_rates", TRUE, ans, loadOk, saveOk, clock, r)
                  /\ IF TruthyRates(r.ret)
                     THEN pc' = Goto("record") /\ outcome' = Ends(outcome)
                     ELSE pc' = "exit" /\ outcome' = Ends("done")
    /\ UNCHANGED <<Config, weather, namaz>>

\* history = process_currency_history(rates)
Record ==
    /\ pc = "record"
    /\ \E loadOk \in BOOLEAN, saveOk \in BOOLEAN :
         LET r0 == process_currency_history(store, rates, MONITOR_CURRENCY,
                                            loadOk, saveOk, clock, NoDelivery)
         IN  /\ Drawn(r0, loadOk, saveOk)
             /\ \E d \in DeliveriesOf(r0) :
                  LET r == IF d = NoDelivery THEN r0
                           ELSE process_currency_history(store, rates, MONITOR_CURRENCY,
                                                         loadOk, saveOk, clock, d)
                  IN  /\ Effects("currency_history", r)
                      /\ last' = Call("process_currency_history", TRUE, rates,
                                      loadOk, saveOk, clock, r)
    /\ pc' = "exit"
    /\ outcome' = Ends("done")
    /\ UNCHANGED <<Config, weather, namaz, rates>>

Next ==
    \/ Tick
    \/ NextDay
    \/ Start
    \/ FullWeather
    \/ FullNamaz
    \/ FullRates
    \/ FallbackWeather
    \/ FallbackNamaz
    \/ FallbackRates
    \/ Report
    \/ UpdNamaz
    \/ UpdCurrency
    \/ Record

Spec == Init /\ [][Next]_vars

----------------------------------------------------------------------------
(* The history tracker on its own: any sequence of calls of                *)
(* process_currency_history, starting from an empty Store, with any rates  *)
(* argument and any Store read/write failure, as the clock advances.       *)

\* the rates main() passes on are truthy ("if rates:")
RecordInputs == KaspiBodies \ {NoRates}

InitRecord ==
    /\ store = EmptyDoc
    /\ clock = Day0
    /\ Idle

\* process_currency_history(rates) called on its own.  The count tg_msg
\* returns is dropped by the caller (line 326), so the Store after the call
\* does not depend on the delivery: here the notification is delivered, and
\* Record draws the other deliveries.
RecordCall ==
    /\ pc = "idle"
    /\ last = NoCall
    /\ \E rs \in RecordInputs, loadOk \in BOOLEAN, saveOk \in BOOLEAN :
         LET r == process_currency_history(store, rs, MONITOR_CURRENCY,
                                           loadOk, saveOk, clock, Delivered)
         IN  /\ Drawn(r, loadOk, saveOk)
             /\ store' = r.file
             /\ sent' = r.msgs
             /\ last' = Call("process_currency_history", TRUE, rs,
                             loadOk, saveOk, clock, r)
    /\ UNCHANGED <<Config, pc, weather, namaz, rates, fetched, failed, outcome>>

\* the call has returned to its caller; its record is dropped
Returned ==
    /\ pc = "idle"
    /\ last # NoCall
    /\ last' = NoCall
    /\ sent' = {}
    /\ UNCHANGED <<Config, store, pc, weather, namaz, rates, fetched, failed, outcome>>

NextRecord ==
    \/ Tick
    \/ NextDay
    \/ RecordCall
    \/ Returned

SpecRecord == InitRecord /\ [][NextRecord]_vars

----------------------------------------------------------------------------
(* tg_msg on its own: one call with any bot handle, any number of          *)
(* recipients and any outcome of every send.                               *)

InitNotify ==
    /\ store = EmptyDoc
    /\ clock = Day0
    /\ Idle

\* tg_msg(txt) called on its own
TgCall ==
    /\ pc = "idle"
    /\ last = NoCall
    /\ \E bot \in BOOLEAN, n \in 1..MaxRecipients :
         \E sends \in [1..n -> [1..3 -> SendOutcomes]] :
           last' = [fn |-> "tg_msg", bot |-> bot, recipients |-> Recipients(n),
                    sends |-> sends, r |-> tg_msg(bot, Recipients(n), sends)]
    /\ sent' = {"message"}
    /\ UNCHANGED <<Config, store, pc, weather, namaz, rates, fetched, failed, outcome>>

NextNotify ==
    \/ TgCall
    \/ Returned

SpecNotify == InitNotify /\ [][NextNotify]_vars

----------------------------------------------------------------------------
(* Two invocations side by side.  The file is not locked: between the      *)
(* load_data and the save_data of one invocation the other may read and    *)
(* write it.  Invocation 1 is started with --mode UPD_NAMAZ, invocation 2  *)
(* with --mode UPD_CURRENCY; a call of a getter is two steps, up to its     *)
(* load_data and from there to its return.                                 *)

ModeOf(p) == IF p = 1 THEN "UPD_NAMAZ" ELSE "UPD_CURRENCY"

\* variant: the document of the invocation's first load is kept for its
\* later writes
Reload_Once(held, file, ok) ==
    IF held # EmptyDoc THEN held ELSE load_data(file, ok).doc

\* store = load_data() / data = load_data(): every write-back starts from a
\* load of its own
Reload(held, file, ok) == load_data(file, ok).doc

\* the write of invocation p replaces a file whose content is not the
\* document p had loaded: another write came in between, or the load failed
Overwrite(p) ==
    IF invocation[p].data = store THEN {}
    ELSE {[by |-> p, cause |-> IF invocation[p].read THEN "stale" ELSE "unread"]}

PairFrame ==
    UNCHANGED <<clock, pc, MODE, USE_LIVE, MONITOR_CURRENCY, current_hour, weather,
                namaz, rates, fetched, failed, outcome, at_start, last>>

\* get_namaz(use_live=True) up to store = load_data()
NamazLoad ==
    /\ \E p \in Procs :
         /\ ModeOf(p) = "UPD_NAMAZ"
         /\ invocation[p].pc = "start"
         /\ \E ans \in NamazAnswers, ok \in BOOLEAN :
              IF ~ans.ok
              THEN /\ ok
                   /\ invocation' = [invocation EXCEPT ![p].pc = "exit"]
                   /\ sent' = sent \cup send_error_to_telegram
              ELSE /\ invocation' =
                        [invocation EXCEPT
                           ![p].pc = "namaz_save",
                           ![p].result = [body |-> ans.body, ts |-> Strftime(clock)],
                           ![p].data = Reload(@, store, ok),
                           ![p].read = ok]
                   /\ sent' = sent \cup load_data(store, ok).msgs
    /\ UNCHANGED <<store, overwrites>>
    /\ PairFrame

\* store["namaz"] = result; save_data(store); return result
NamazSave ==
    /\ \E p \in Procs :
         /\ invocation[p].pc = "namaz_save"
         /\ \E ok \in BOOLEAN :
              LET s == save_data(store, Merge(invocation[p].data, "namaz",
                                             invocation[p].result), ok)
              IN  /\ store' = s.file
                  /\ sent' = sent \cup s.msgs
                  /\ overwrites' = IF ok THEN overwrites \cup Overwrite(p) ELSE overwrites
                  /\ invocation' =
                       [invocation EXCEPT
                          ![p].pc = "exit",
                          ![p].put.namaz = IF ok THEN <<invocation[p].result>> ELSE @]
    /\ PairFrame

\* get_rates(force_update=True, use_live=True) up to store = load_data()
RatesLoad ==
    /\ \E p \in Procs :
         /\ ModeOf(p) = "UPD_CURRENCY"
         /\ invocation[p].pc = "start"
         /\ \E ans \in RatesAnswers, ok \in BOOLEAN :
              IF ~ans.ok
              THEN /\ ok
                   /\ invocation' = [invocation EXCEPT ![p].pc = "exit"]
                   /\ sent' = sent
              ELSE /\ invocation' =
                        [invocation EXCEPT
                           ![p].pc = "rates_save",
                           ![p].res = [ans.body EXCEPT !.ts = Strftime(clock)],
                           ![p].data = Reload(@, store, ok),
                           ![p].read = ok]
                   /\ sent' = sent \cup load_data(store, ok).msgs
    /\ UNCHANGED <<store, overwrites>>
    /\ PairFrame

\* store["currency_rates"] = res; save_data(store); return res
RatesSave ==
    /\ \E p \in Procs :
         /\ invocation[p].pc = "rates_save"
         /\ \E ok \in BOOLEAN :
              LET s == save_data(store, Merge(invocation[p].data, "currency_rates",
                                             invocation[p].res), ok)
              IN  /\ store' = s.file
                  /\ sent' = sent \cup s.msgs
                  /\ overwrites' = IF ok THEN overwrites \cup Overwrite(p) ELSE overwrites
                  /\ invocation' =
                       [invocation EXCEPT
                          ![p].pc = IF TruthyRates(invocation[p].res) THEN "record" ELSE "exit",
                          ![p].put.currency_rates = IF ok THEN <<invocation[p].res>> ELSE @]
    /\ PairFrame

\* process_currency_history(rates) up to data = load_data(); it returns
\* before the load when the monitored currency is not in the rates
RecordLoad ==
    /\ \E p \in Procs :
         /\ invocation[p].pc = "record"
         /\ \E ok \in BOOLEAN :
              LET r == process_currency_history(store, invocation[p].res, MONITOR_CURRENCY,
                                                ok, TRUE, clock, Delivered)
              IN  IF ~r.read
                  THEN /\ ok
                       /\ invocation' = [invocation EXCEPT ![p].pc = "exit"]
                       /\ sent' = sent
                  ELSE /\ invocation' =
                            [invocation EXCEPT
                               ![p].pc = "record_save",
                               ![p].data = Reload(@, store, ok),
                               ![p].read = ok]
                       /\ sent' = sent \cup load_data(store, ok).msgs
    /\ UNCHANGED <<store, overwrites>>
    /\ PairFrame

\* process_currency_history(rates) from its day test to its return, on the
\* document it loaded
RecordSave ==
    /\ \E p \in Procs :
         /\ invocation[p].pc = "record_save"
         /\ \E ok \in BOOLEAN :
              LET r == process_currency_history(invocation[p].data, invocation[p].res,
                                                MONITOR_CURRENCY, TRUE, ok, clock, Delivered)
                  saved == r.wrote /\ ok
              IN  /\ r.wrote \/ ok
                  /\ store' = IF saved THEN r.file ELSE store
                  /\ sent' = sent \cup r.msgs
                  /\ overwrites' = IF saved THEN overwrites \cup Overwrite(p) ELSE overwrites
                  /\ invocation' =
                       [invocation EXCEPT
                          ![p].pc = "exit",
                          ![p].put.currency_history =
                              IF saved THEN <<r.file.currency_history>> ELSE @]
    /\ PairFrame

NextPair ==
    \/ NamazLoad
    \/ NamazSave
    \/ RatesLoad
    \/ RatesSave
    \/ RecordLoad
    \/ RecordSave

SpecPair == Init /\ [][NextPair]_vars

----------------------------------------------------------------------------
(* Vocabulary of the properties *)

Getters == {"get_weather", "get_namaz", "get_rates"}
Categories == {"weather", "namaz", "currency_rates"}
DocKeys == Categories \cup {"currency_history", "last_history_update"}

KeyOf(fn) ==
    CASE fn = "get_weather" -> "weather"
      [] fn = "get_namaz" -> "namaz"
      [] OTHER -> "currency_rates"

\* the payload under a category key is not empty
Present(key, payload) ==
    IF key = "currency_rates" THEN payload # NoRates ELSE payload # NoWeather

\* the last call was the cache fallback of a getter
FallbackCall == last.fn \in Getters /\ ~last.live

\* the last call was a live call of a getter whose upstream request did not raise
LiveSuccess == last.fn \in Getters /\ last.live /\ last.ans.ok

\* the timestamp field holds a time of the clock
IsTime(ts) == ts.kind = "time"

\* the last call was a call of process_currency_history
Recorded == last.fn = "process_currency_history"

\* the monitored currency's entry of the rates passed to that call
Sample == last.ans[MONITOR_CURRENCY]

\* that entry is in the rates and its buy and sale are numbers
SampleParsed == Sample # NoRate /\ FloatOk(Sample.buy) /\ FloatOk(Sample.sale)

\* the history entry that call makes of it
NewEntry == [t |-> last.now, buy |-> Float(Sample.buy), sale |-> Float(Sample.sale)]

\* the monitored currency's history in the Store before and after the call
OldHistory == last.pre.currency_history[MONITOR_CURRENCY]
NewHistory == store.currency_history[MONITOR_CURRENCY]

\* the Store's last_history_update before the call is today / an earlier day
SameDay == last.pre.last_history_update = <<last.now.day>>
EarlierDay ==
    /\ last.pre.last_history_update # <<>>
    /\ last.pre.last_history_update[1] < last.now.day

\* the history the call works on: the one load_data returned, after the
\* day-rollover step
Rolled == IF last.loadOk /\ SameDay THEN OldHistory ELSE <<>>

\* two history entries with the same (buy, sale)
SameRates(a, b) == a.buy = b.buy /\ a.sale = b.sale

----------------------------------------------------------------------------
(* C1: fallback with a cached payload *)

\* C1 as stated: whenever the live fetch failed and the Store (read without
\* error) holds a payload for the category, the fallback returns that payload
\* with its timestamp field replaced by the stale marker.
C1_AlwaysMarked ==
    (FallbackCall /\ last.loadOk /\ Present(KeyOf(last.fn), last.pre[KeyOf(last.fn)]))
    => last.r.ret = [last.pre[KeyOf(last.fn)] EXCEPT !.ts = STALE_MARKER]

\* C1 amended: whenever the live fetch failed and load_data returns a payload
\* for the category, the fallback returns that payload; its timestamp field
\* is the stale marker only if the cached payload has no timestamp field, and
\* the timestamp of the earlier successful fetch is returned unchanged.
C1_FallbackKeepsStamp ==
    (FallbackCall /\ last.loadOk /\ Present(KeyOf(last.fn), last.pre[KeyOf(last.fn)]))
    => LET cached == last.pre[KeyOf(last.fn)]
       IN  /\ IsTime(cached.ts) => last.r.ret = cached
           /\ cached.ts = NoStamp => last.r.ret = [cached EXCEPT !.ts = STALE_MARKER]

\* a fallback served a cached payload that carried the time of an earlier fetch
C1_Witness ==
    /\ FallbackCall
    /\ last.loadOk
    /\ IsTime(last.pre[KeyOf(last.fn)].ts)
    /\ last.r.ret = last.pre[KeyOf(last.fn)]

----------------------------------------------------------------------------
(* C2: fallback with nothing cached *)

\* C2: whenever the live fetch failed and the Store holds no payload for the
\* category, the fallback returns an empty payload.
C2_EmptyWhenNothingCached ==
    (FallbackCall /\ ~Present(KeyOf(last.fn), last.pre[KeyOf(last.fn)]))
    => ~Present(KeyOf(last.fn), last.r.ret)

----------------------------------------------------------------------------
(* C3: merge isolation *)

\* C3: a live refresh that wrote its category leaves every other key of the
\* Store as it was before the call, whatever load_data returned.
C3_OtherKeysKept ==
    LiveSuccess
    => \A k \in DocKeys \ {KeyOf(last.fn)} : store[k] = last.pre[k]

----------------------------------------------------------------------------
(* C4: no partial report *)

\* C4: send_text_report is called only in a FULL_REPORT run whose three
\* payloads are all non-empty; a FULL_REPORT run that ends with an empty
\* payload has aborted and handed no report to tg_msg.
C4_NoPartialReport ==
    /\ (pc = "report" \/ outcome = "reported" \/ "report" \in sent)
       => /\ MODE = "FULL_REPORT"
          /\ weather # NoWeather /\ namaz # NoNamaz /\ rates # NoRates
    /\ (MODE = "FULL_REPORT" /\ pc = "exit"
          /\ (weather = NoWeather \/ namaz = NoNamaz \/ rates = NoRates))
       => outcome = "aborted" /\ "report" \notin sent

\* a FULL_REPORT run aborted because a category stayed empty after its fallback
C4_Witness ==
    /\ MODE = "FULL_REPORT"
    /\ pc = "exit"
    /\ outcome = "aborted"
    /\ namaz = NoNamaz
    /\ weather # NoWeather

----------------------------------------------------------------------------
(* C5: empty Store, weather fetch fails *)

\* the run whose Store was empty at the start and whose weather request raised
\* has ended
C5_Case ==
    /\ MODE = "FULL_REPORT"
    /\ pc = "exit"
    /\ at_start = EmptyDoc
    /\ "weather" \in failed

\* C5 as stated: in that run the weather payload is empty, the run aborts and
\* nothing at all is handed to tg_msg.
C5_NoMessageAtAll ==
    C5_Case => (weather = NoWeather /\ outcome = "aborted" /\ sent = {})

\* C5 amended: in that run the weather payload is empty, the run aborts and
\* no report is handed to tg_msg; the failed weather fetch hands an error
\* message to tg_msg, and error messages are the only ones of the run.
C5_NoReportButError ==
    C5_Case => (weather = NoWeather /\ outcome = "aborted" /\ sent = {"error"})

C5_Witness ==
    C5_Case /\ outcome = "aborted" /\ "namaz" \notin failed /\ sent = {"error"}

----------------------------------------------------------------------------
(* C6: an empty upstream result *)

\* the upstream request completed but held no configured currency, or no
\* recognised prayer time
EmptyAnswer ==
    /\ LiveSuccess
    /\ \/ last.fn = "get_rates" /\ last.ans.body = NoRates
       \/ last.fn = "get_namaz" /\ last.ans.body = "blank"

\* C6: an empty upstream result does not overwrite the payload the Store
\* holds for the category.
C6_EmptyResultKeepsCache ==
    (EmptyAnswer /\ Present(KeyOf(last.fn), last.pre[KeyOf(last.fn)]))
    => store[KeyOf(last.fn)] = last.pre[KeyOf(last.fn)]

----------------------------------------------------------------------------
(* C7: the live flag *)

\* C7: a run started with the live flag off makes no upstream request and
\* leaves the Store as it found it.
C7_CacheOnlyRun ==
    (pc # "idle" /\ ~USE_LIVE) => (fetched = {} /\ store = at_start)

----------------------------------------------------------------------------
(* C8: a successful live refresh *)

\* C8: after a live fetch that succeeded and whose save_data succeeded, the
\* Store's entry of the category is the returned payload, which is non-empty
\* and stamped with the time of the call, not with the stale marker.
C8_StoredEqualsReturned ==
    (LiveSuccess /\ last.saveOk)
    => /\ store[KeyOf(last.fn)] = last.r.ret
       /\ Present(KeyOf(last.fn), last.r.ret)
       /\ last.r.ret.ts = [kind |-> "time", day |-> last.now.day, tick |-> last.now.tick]
       /\ last.r.ret.ts # STALE_MARKER

\* a live refresh replaced an older cached payload
C8_Witness ==
    /\ LiveSuccess
    /\ last.saveOk
    /\ Present(KeyOf(last.fn), last.pre[KeyOf(last.fn)])
    /\ store[KeyOf(last.fn)] = last.r.ret
    /\ store[KeyOf(last.fn)] # last.pre[KeyOf(last.fn)]

----------------------------------------------------------------------------
(* C9: the fallback is read-only *)

\* C9: a cache fallback neither calls save_data nor changes any key of the
\* Store; save_data is called by a getter, and a payload is put under a
\* category key, only in a live call of that category's getter whose upstream
\* request did not raise.
C9_FallbackReadOnly ==
    /\ FallbackCall => (store = last.pre /\ ~last.r.wrote)
    /\ (last.fn \in Getters /\ last.r.wrote) => LiveSuccess
    /\ \A k \in Categories :
         (last.fn # "none" /\ store[k] # last.pre[k] /\ Present(k, store[k]))
         => (LiveSuccess /\ KeyOf(last.fn) = k)

\* a fallback served a cached payload and left the Store alone
C9_Witness ==
    /\ FallbackCall
    /\ Present(KeyOf(last.fn), last.r.ret)
    /\ last.r.ret # last.pre[KeyOf(last.fn)]
    /\ store = last.pre

----------------------------------------------------------------------------
(* C10: the history is bounded, ordered and evicts its oldest entry *)

\* the last call was a call of process_currency_history that read the Store
\* without error, found the history of today full, appended and saved
Evicting ==
    /\ last.fn = "process_currency_history"
    /\ last.loadOk
    /\ last.saveOk
    /\ last.r.step = "saved"
    /\ last.pre.last_history_update = <<last.now.day>>
    /\ Len(last.pre.currency_history[MONITOR_CURRENCY]) = 24

\* C10: after any sequence of record calls from an empty Store, the
\* persisted history of the monitored currency has at most 24 entries, in
\* chronological order, oldest first; and a call that appends to a history
\* of 24 entries leaves the 23 newest of them followed by the new sample.
C10_HistoryBound ==
    LET h == store.currency_history[MONITOR_CURRENCY]
        old == last.pre.currency_history[MONITOR_CURRENCY]
    IN  /\ Len(h) <= 24
        /\ \A i \in 1..(Len(h) - 1) : NotAfter(h[i].t, h[i + 1].t)
        /\ Evicting
           => /\ Len(h) = 24
              /\ \A i \in 1..23 : h[i] = old[i + 1]
              /\ h[24].t = last.now
              /\ h[24].buy = Float(last.ans[MONITOR_CURRENCY].buy)
              /\ h[24].sale = Float(last.ans[MONITOR_CURRENCY].sale)

\* a 25th sample of the day was appended and the oldest entry left the history
C10_Witness ==
    /\ Evicting
    /\ Len(store.currency_history[MONITOR_CURRENCY]) = 24
    /\ store.currency_history[MONITOR_CURRENCY][1] = last.pre.currency_history[MONITOR_CURRENCY][2]
    /\ store.currency_history[MONITOR_CURRENCY][1] # last.pre.currency_history[MONITOR_CURRENCY][1]

----------------------------------------------------------------------------
(* C11: an unchanged sample is not recorded *)

\* the record call was given the (buy, sale) of the last entry of today's
\* history as load_data returned it
Unchanged ==
    /\ Recorded
    /\ SampleParsed
    /\ Rolled # <<>>
    /\ SameRates(Rolled[Len(Rolled)], NewEntry)

\* C11: a record call whose sample has the (buy, sale) of the last history
\* entry appends nothing, hands nothing to tg_msg, does not call save_data
\* and returns the stored history; and no two consecutive entries of the
\* stored history of the monitored currency have the same (buy, sale).
C11_DedupNoOp ==
    /\ Unchanged
       => /\ store = last.pre
          /\ ~last.r.wrote
          /\ last.r.msgs = {}
          /\ last.r.notify.calls = 0
          /\ last.r.ret = last.pre.currency_history
    /\ \A i \in 1..(Len(NewHistory) - 1) : ~SameRates(NewHistory[i], NewHistory[i + 1])

\* the same sample was recorded again after the history had grown to two
\* entries, and nothing happened
C11_Witness ==
    /\ Unchanged
    /\ Len(OldHistory) >= 2
    /\ store = last.pre
    /\ sent = {}

----------------------------------------------------------------------------
(* C12: day rollover *)

\* the record call found an earlier date in the Store and was given a sample
\* it can record
RollingOver ==
    /\ Recorded
    /\ last.loadOk
    /\ EarlierDay
    /\ SampleParsed

\* C12: a record call that finds an earlier last_history_update clears the
\* history before appending: the history it returns is today's sample alone,
\* and when save_data succeeds the Store holds that history and today's date,
\* whatever the last sample of the earlier day was.
C12_RolloverStartsAnew ==
    RollingOver
    => /\ last.r.ret[MONITOR_CURRENCY] = <<NewEntry>>
       /\ last.r.notify.calls = 0
       /\ last.saveOk
          => /\ NewHistory = <<NewEntry>>
             /\ store.last_history_update = <<last.now.day>>

\* the first sample of a new day repeated the last sample of the day before
\* and was recorded as the only entry
C12_Witness ==
    /\ RollingOver
    /\ last.saveOk
    /\ OldHistory # <<>>
    /\ SameRates(OldHistory[Len(OldHistory)], NewEntry)
    /\ NewHistory = <<NewEntry>>
    /\ store.last_history_update = <<last.now.day>>

----------------------------------------------------------------------------
(* C13: one reset a day, at the first rate fetch of the day *)

\* a run has ended in which the live rate fetch succeeded and brought a
\* numeric rate of the monitored currency, and in which nothing failed
FetchedCleanly ==
    /\ pc = "exit"
    /\ "currency_rates" \in fetched
    /\ "currency_rates" \notin failed
    /\ rates[MONITOR_CURRENCY] # NoRate
    /\ FloatOk(rates[MONITOR_CURRENCY].buy)
    /\ FloatOk(rates[MONITOR_CURRENCY].sale)
    /\ "error" \notin sent

\* C13: after a run of any mode whose live rate fetch succeeded, the history
\* of the day before has been reset: the monitored currency's history in the
\* Store holds no entry of an earlier day.
C13_ResetAtFirstFetch ==
    FetchedCleanly
    => \A i \in 1..Len(store.currency_history[MONITOR_CURRENCY]) :
         store.currency_history[MONITOR_CURRENCY][i].t.day = clock.day

----------------------------------------------------------------------------
(* C14: when a change notification is sent *)

\* the sample differs from the last entry of the history the call works on
Changed ==
    /\ SampleParsed
    /\ Rolled # <<>>
    /\ ~SameRates(Rolled[Len(Rolled)], NewEntry)

\* the sample differs from the only entry of that history in buy alone
BuyMoved ==
    /\ SampleParsed
    /\ Len(Rolled) = 1
    /\ Rolled[1].buy # NewEntry.buy
    /\ Rolled[1].sale = NewEntry.sale

\* C14: a record call hands a change notification to tg_msg exactly when the
\* history after the day-rollover step is non-empty and the sample differs
\* from its last entry, and then it makes one tg_msg call; the first sample
\* of an empty history is recorded without a notification; a sample that
\* differs from the only entry in buy alone is notified once and makes the
\* history two entries long.
C14_NotifiesOnChange ==
    Recorded
    => /\ ("change" \in last.r.msgs) <=> Changed
       /\ last.r.notify.calls = (IF Changed THEN 1 ELSE 0)
       /\ (SampleParsed /\ Rolled = <<>>)
          => /\ "change" \notin last.r.msgs
             /\ last.r.ret[MONITOR_CURRENCY] = <<NewEntry>>
       /\ BuyMoved
          => /\ last.r.notify.calls = 1
             /\ last.r.ret[MONITOR_CURRENCY] = <<Rolled[1], NewEntry>>

\* a second sample of the day with another buy was notified and stored
C14_Witness ==
    /\ Recorded
    /\ BuyMoved
    /\ "change" \in sent
    /\ last.saveOk
    /\ Len(NewHistory) = 2

----------------------------------------------------------------------------
(* C15: a failed notification does not stop the recording *)

\* the record call sent its change notification and tg_msg delivered it to
\* nobody
NotifyFailed ==
    /\ Recorded
    /\ last.r.notify.calls > 0
    /\ last.r.notify.count = 0

\* C15: a record call whose change notification reaches no recipient (no
\* bot, or every send failing) still appends the sample, calls save_data and
\* returns the new history; when save_data succeeds the Store holds it.
C15_NotifyFailureNotFatal ==
    NotifyFailed
    => /\ ~last.r.raised
       /\ last.r.wrote
       /\ Len(last.r.ret[MONITOR_CURRENCY]) >= 2
       /\ last.r.ret[MONITOR_CURRENCY][Len(last.r.ret[MONITOR_CURRENCY])] = NewEntry
       /\ last.saveOk => NewHistory = last.r.ret[MONITOR_CURRENCY]

\* three sends failed for every recipient and the sample is in the Store
C15_Witness ==
    /\ NotifyFailed
    /\ \A i \in 1..Len(last.r.notify.attempts) : last.r.notify.attempts[i] = 3
    /\ last.saveOk
    /\ NewHistory # OldHistory
    /\ NewHistory[Len(NewHistory)] = NewEntry

----------------------------------------------------------------------------
(* C16: the monitored currency is not in the rates *)

\* C16: a record call whose rates lack the monitored currency leaves the
\* Store unchanged and returns the stored history.
C16_AbsentReturnsStored ==
    (Recorded /\ Sample = NoRate)
    => /\ store = last.pre
       /\ last.r.ret = last.pre.currency_history

----------------------------------------------------------------------------
(* C17: no exception leaves a getter or main() *)

\* the last call was a live call of a getter whose upstream request raised
LiveFailure == last.fn \in Getters /\ last.live /\ ~last.ans.ok

\* C17: no call of a getter or of process_currency_history lets an exception
\* out; a live call whose upstream request raised returns the empty payload
\* and leaves the Store alone; main()'s except branch is never needed, and a
\* run that has ended has returned from main() after its report, its abort,
\* its update or the hour gate.
C17_NoExceptionEscapes ==
    /\ last.fn \in Getters \cup {"process_currency_history"} => ~last.r.escaped
    /\ LiveFailure
       => /\ ~Present(KeyOf(last.fn), last.r.ret)
          /\ store = last.pre
    /\ outcome # "caught"
    /\ pc = "exit" => outcome \in {"reported", "aborted", "done", "gated"}

\* every upstream request of a FULL_REPORT run raised and the run returned
C17_Witness ==
    /\ pc = "exit"
    /\ MODE = "FULL_REPORT"
    /\ failed = {"weather", "namaz", "currency_rates"}
    /\ "error" \in sent
    /\ outcome = "aborted"

----------------------------------------------------------------------------
(* C18: the Store write fails after a successful fetch *)

\* main()'s local variable of a category
Local(key) ==
    CASE key = "weather" -> weather
      [] key = "namaz" -> namaz
      [] OTHER -> rates

\* the payload a live call makes of the upstream answer
Fresh ==
    IF last.fn = "get_rates"
    THEN [last.ans.body EXCEPT !.ts = [kind |-> "time", day |-> last.now.day,
                                       tick |-> last.now.tick]]
    ELSE [body |-> last.ans.body,
          ts |-> [kind |-> "time", day |-> last.now.day, tick |-> last.now.tick]]

\* the last call was a live call whose request succeeded and whose
\* save_data failed
SaveFailed == LiveSuccess /\ ~last.saveOk

\* C18: a live call whose save_data fails still returns the fetched payload;
\* the category does not count as failed, main() holds that payload in its
\* local variable and no fallback replaces it, so it is the one given to
\* send_text_report; the file keeps its content.
C18_SaveFailureKeepsPayload ==
    SaveFailed
    => /\ last.r.ret = Fresh
       /\ ~last.r.raised
       /\ KeyOf(last.fn) \notin failed
       /\ Local(KeyOf(last.fn)) = Fresh
       /\ store = last.pre

\* a report was sent with rates that could not be written to the Store
C18_Witness ==
    /\ SaveFailed
    /\ last.fn = "get_rates"
    /\ pc = "exit"
    /\ outcome = "reported"
    /\ "report" \in sent
    /\ rates = Fresh
    /\ store.currency_rates # rates

----------------------------------------------------------------------------
(* C19: at most three attempts, at most one delivery per recipient *)

\* the last call was a call of tg_msg
Told == last.fn = "tg_msg"

\* C19: in a call of tg_msg every entry of recipients is sent to at most 3
\* times and delivered to at most once; the attempts end with the first
\* success; an entry whose sends all fail with a TelegramError is sent to
\* exactly 3 times.
C19_BoundedAttempts ==
    Told
    => \A i \in 1..Len(last.recipients) :
         /\ last.r.attempts[i] <= 3
         /\ last.r.delivered[i] <= 1
         /\ \A a \in 1..3 :
              (a < last.r.attempts[i]) => last.sends[i][a] # "ok"
         /\ (last.bot /\ \A a \in 1..3 : last.sends[i][a] = "tgerr")
            => (last.r.attempts[i] = 3 /\ last.r.delivered[i] = 0)

\* one recipient was given up after three sends, another got the message at
\* the second send
C19_Witness ==
    /\ Told
    /\ \E i \in 1..Len(last.recipients) :
         last.r.attempts[i] = 3 /\ last.r.delivered[i] = 0
    /\ \E i \in 1..Len(last.recipients) :
         /\ last.sends[i] = <<"tgerr", "ok", "ok">>
         /\ last.r.attempts[i] = 2
         /\ last.r.delivered[i] = 1

----------------------------------------------------------------------------
(* C20: recipients are served independently *)

\* some send to the i-th recipient succeeds before the loop gives it up
Succeeds(i) ==
    \E a \in 1..3 :
      /\ last.sends[i][a] = "ok"
      /\ \A b \in 1..(a - 1) : last.sends[i][b] = "tgerr"

\* C20: no exception leaves tg_msg; with a bot, every entry of recipients is
\* sent to at least once whatever happened to the entries before it, and
\* the returned count is the number of entries for which a send succeeded;
\* without a bot the count is 0.
C20_RecipientsIndependent ==
    Told
    => /\ ~last.r.escaped
       /\ last.r.count \in 0..Len(last.recipients)
       /\ last.bot
          => /\ \A i \in 1..Len(last.recipients) : last.r.attempts[i] >= 1
             /\ last.r.count = Cardinality({i \in 1..Len(last.recipients) : Succeeds(i)})
       /\ ~last.bot => last.r.count = 0

\* the first recipient was given up and the second got the message
C20_Witness ==
    /\ Told
    /\ last.bot
    /\ Len(last.recipients) >= 2
    /\ last.r.attempts[1] = 3
    /\ last.r.delivered[1] = 0
    /\ last.r.delivered[2] = 1
    /\ last.r.count = 1

----------------------------------------------------------------------------
(* C21: what the day rollover clears *)

\* the record call read the Store without error, found another date in it,
\* appended its sample and saved
RolledAndSaved ==
    /\ Recorded
    /\ last.loadOk
    /\ last.saveOk
    /\ last.r.step = "saved"
    /\ ~SameDay

\* C21: the day-rollover step of a record call clears only the history of
\* the monitored currency; the history stored under any other currency code
\* is the same after the call as before it.
C21_RolloverKeepsOthers ==
    RolledAndSaved
    => \A c \in CURRENCIES \ {MONITOR_CURRENCY} :
         store.currency_history[c] = last.pre.currency_history[c]

----------------------------------------------------------------------------
(* C22: the hour gate of UPD_CURRENCY *)

\* the hour read at the top of main() is within 5..15
InWindow == 5 <= current_hour /\ current_hour <= 15

\* C22: an UPD_CURRENCY run started outside 5..15 makes no call at all: no
\* rate fetch, no Store write, no history change, no message; one started
\* within 5..15 makes the rate request, and process_currency_history is
\* called only in such a run and only with the non-empty payload of that
\* fetch.  A FULL_REPORT or UPD_NAMAZ run is never stopped by the gate and
\* makes its upstream request at any hour.
C22_HourGate ==
    /\ (MODE = "UPD_CURRENCY" /\ pc # "idle" /\ ~InWindow)
       => /\ fetched = {}
          /\ store = at_start
          /\ sent = {}
          /\ last = NoCall
          /\ pc # "record"
          /\ pc = "exit" => outcome = "gated"
    /\ (MODE = "UPD_CURRENCY" /\ pc = "exit" /\ InWindow)
       => /\ "currency_rates" \in fetched
          /\ outcome # "gated"
    /\ (pc = "record" \/ Recorded)
       => /\ MODE = "UPD_CURRENCY"
          /\ InWindow
          /\ "currency_rates" \in fetched
          /\ "currency_rates" \notin failed
          /\ TruthyRates(rates)
          /\ Recorded => last.ans = rates
    /\ (MODE # "UPD_CURRENCY" /\ pc = "exit")
       => /\ outcome # "gated"
          /\ MODE = "UPD_NAMAZ" => "namaz" \in fetched
          /\ MODE = "FULL_REPORT" => "weather" \in fetched

\* an UPD_CURRENCY run of hour 16 ended at the gate, on a later day than
\* the history the Store holds
C22_Witness ==
    /\ MODE = "UPD_CURRENCY"
    /\ pc = "exit"
    /\ current_hour = 16
    /\ outcome = "gated"
    /\ store = HistoryDoc
    /\ clock.day = 1

----------------------------------------------------------------------------
(* C24: a record call that fails before its append *)

\* the record call was given a buy or a sale of the monitored currency that
\* float() rejects ("x" is that text in the model)
ParseFailed ==
    /\ Recorded
    /\ Sample # NoRate
    /\ (Sample.buy = "x" \/ Sample.sale = "x")

\* C24: a record call whose buy or sale cannot be parsed leaves the Store as
\* it was: save_data is not called, no entry is added, and the cleared
\* history and new last_history_update of a day rollover made in that call
\* are not persisted; the call reports the error and returns {}.
C24_ParseFailureKeepsStore ==
    ParseFailed
    => /\ store = last.pre
       /\ ~last.r.wrote
       /\ last.r.raised
       /\ last.r.ret = NoHistory
       /\ last.r.notify.calls = 0
       /\ "error" \in last.r.msgs

\* the call found the history of an earlier day, so it had rolled over in
\* memory before the parse failed, and the Store still holds that history
C24_Witness ==
    /\ ParseFailed
    /\ last.loadOk
    /\ EarlierDay
    /\ OldHistory # <<>>
    /\ NewHistory = OldHistory
    /\ store.last_history_update # <<last.now.day>>

----------------------------------------------------------------------------
(* C25: a notified change is a recorded change *)

\* the record call handed a change notification to tg_msg
Notified == Recorded /\ "change" \in last.r.msgs

\* C25: a record call that notifies a change persists the sample in the
\* same call, also when save_data fails: after the call the last entry of
\* the stored history is that sample, so a later call with the same rates
\* does not notify the same change again.
C25_NotifiedIsPersisted ==
    Notified
    => /\ NewHistory # <<>>
       /\ NewHistory[Len(NewHistory)] = NewEntry

----------------------------------------------------------------------------
(* C23: read-modify-write of the whole document, without a lock *)

PutKeys == {"namaz", "currency_rates", "currency_history"}

\* invocation p wrote a payload under key k with success and the Store does
\* not hold it
LostUpdate(p, k) ==
    /\ invocation[p].put[k] # <<>>
    /\ store[k] # invocation[p].put[k][1]

\* no write of the two invocations followed a load_data that failed
AllRead == \A w \in overwrites : w.cause # "unread"

\* C23: every write-back follows a load of its own, so an update of an
\* invocation whose loads read the file is lost only when the other
\* invocation writes a document it loaded before that update: never while
\* the other invocation has not started.  (That the lost update is
\* reachable with the two interleaved is C23_Witness.)
C23_LostOnlyByInterleaving ==
    \A p \in Procs, k \in PutKeys :
       (AllRead /\ LostUpdate(p, k))
       => /\ \E w \in overwrites : w.by # p /\ w.cause = "stale"
          /\ \E q \in Procs \ {p} : invocation[q].pc # "start"

\* the UPD_NAMAZ invocation saved its payload, the UPD_CURRENCY invocation
\* then saved the rates into the document it had loaded before, and the
\* namaz update is gone; every load and every save succeeded
C23_Witness ==
    /\ AllRead
    /\ LostUpdate(1, "namaz")
    /\ invocation[2].put.currency_rates # <<>>
    /\ store.currency_rates = invocation[2].put.currency_rates[1]
    /\ \A p \in Procs : invocation[p].pc = "exit"

====
